---- MODULE Spec2Model ----
(***************************************************************************)
(* Model of the messaging abstraction of go-modules/messenger: the         *)
(* Messenger (orchestrator) of messenger.go, the receive callback of the   *)
(* Pub/Sub adapter, and the GracefulShutdown coordinator of app.go.        *)
(***************************************************************************)
EXTENDS Naturals, Integers, Sequences, FiniteSets, TLC

\* ---------------------------------------------------------------- bounds
MaxHandlers == 2     \* handlers passed to one Subscribe call
MaxFailures == 2     \* failures of adapter.Subscribe injected in one run
MaxDeliveries == 1   \* messages in flight at once in the receive loops
MaxRpcFailures == 1  \* broker requests of the adapter that fail in one run
MaxConnectFailures == 2  \* connection attempts of sql.Connection that fail in one run

\* The goroutines that call Messenger.Subscribe: two, running concurrently
\* (App.Run starts one per handler group).
Calls == {1, 2}
Slots == 1..MaxDeliveries
\* The callbacks sub.Receive runs at once, each in its own goroutine, where the
\* claim is about their running at once; and all the slots there are.
ConcSlots == {1, 2}
AllSlots == Slots \cup ConcSlots
\* Where a message instance can be allocated.
Addresses == 1..Cardinality(AllSlots)
\* The goroutines inside pubsubAdapter.Subscribe or pubsubAdapter.Dispatch, and
\* the adapter instances (newPubsubAdapter) working against the one broker.
Tasks == {1, 2}
Instances == {1, 2}

\* The goroutines that call Connection.DB.
Goroutines == {1, 2}

\* ------------------------------------------------------------ input sets
Environment == "dev"
Queues == {"", "x", "y"}
Ids == {"A", "B"}
MsgTypes == Ids \cup {"C"}
\* Messages given to Dispatch: the payload "NaN" is one json.Marshal rejects.
Payloads == {"1", "NaN"}
Messages == [id : Ids, queue : Queues, payload : Payloads]
Handlers == [id : Ids, queue : Queues]
HandlerLists == UNION {[1..n -> Handlers] : n \in 0..MaxHandlers}
\* Handler lists that pass validation, for the routing of received messages.
RouteLists == {h \in HandlerLists : \A i \in 1..Len(h) : h[i].queue = "x"}
\* Envelopes the broker delivers: undecodable, or with a type and a body that
\* does or does not decode into the message of the handler of that type.
Envelopes ==
  {[ok |-> FALSE, type |-> "", bodyOK |-> FALSE]}
    \cup [ok : {TRUE}, type : MsgTypes, bodyOK : BOOLEAN]
\* Messages sent and received again: a struct with one exported field, the webhook
\* message (a WebhookPayload object under "payload", decoded by its own
\* UnmarshalJSON) and a struct whose identifier is not valid UTF-8.
RoundTripMessages ==
  { [id |-> "A", queue |-> "x", payload |-> "1"],
    [id |-> "webhook", queue |-> "x", payload |-> "{\"type\":\"t\",\"data\":null}"],
    [id |-> "\\xff", queue |-> "x", payload |-> "1"] }
HandlerOf(msg) == [id |-> msg.id, queue |-> msg.queue]
RoundTripGroups ==
  {<<HandlerOf(m)>> : m \in RoundTripMessages}
    \cup {<<HandlerOf(m), HandlerOf(n)>> : m, n \in RoundTripMessages}
\* The handler groups of the application whose goroutines run concurrently.
AppGroups ==
  { <<[id |-> "A", queue |-> "x"]>>,
    <<[id |-> "A", queue |-> "y"], [id |-> "B", queue |-> "y"]>>,
    <<[id |-> "A", queue |-> "x"], [id |-> "B", queue |-> "y"]>> }

\* The names the adapter is given: prefixed queues, and PubsubConfig.DeadLetterTopic
\* ("" = no dead-letter topic).
PQueues == {"dev.x", "dev.y"}
DeadLetterTopics == {"", "dev.dlq"}
Names == {"dev." \o q : q \in Queues} \cup {"dev.dlq"}
\* Subscription configurations: as created, as Subscribe updates them, as changed
\* from outside (the console).
\* Config.PubsubConfig.DeadLetterTopic as the application sets it (or leaves it).
DeadLetterNames == {"", "dlq"}
PolicyDefault == "default"
\* DeadLetterPolicy.MaxDeliveryAttempts of the policy Subscribe applies.
MaxDeliveryAttempts == 5
PolicyConfigured == "deadLetter/5 attempts/retry 10s-300s"
PolicyDrifted == "changed in console"
NoSub == "no such subscription"

\* error values
Nil == "nil"
ErrDifferentQueues == "all handlers must subscribe to the same queue"
Canceled == "context canceled"
WrappedCanceled == "receive: context canceled"
ErrBroker == "broker unavailable"
ErrMarshal == "json: unsupported value"
ErrPublish == "publish failed"
ErrUnmarshal == "json: cannot unmarshal"
ErrHandle == "handler failed"
ErrNoHandler == "no handler found for message"
DeadlineExceeded == "context deadline exceeded"
ErrNotFound == "rpc error: NotFound"
ErrAlreadyExists == "rpc error: AlreadyExists"
AdapterErrors == {Nil, Canceled, WrappedCanceled, ErrBroker}

VARIABLES
  RestartTimeout,  \* Config.RestartTimeout (0 = no restart)
  pc,              \* position of each Subscribe call
  handlers,        \* h ...MessageHandler of each call
  queue,           \* queue name last given to adapter.Subscribe by each call
  ctx,             \* context obtained from Shutdown.Add by the innermost frame
  frames,          \* Subscribe frames on the stack of each call (deferred Done's)
  invoked,         \* number of adapter.Subscribe invocations of each call
  slept,           \* number of time.Sleep(RestartTimeout) completed by each call
  err,             \* error last returned by adapter.Subscribe to each call
  result,          \* what the outermost Subscribe returned
  failures,        \* failures of adapter.Subscribe injected so far
  cancels,         \* GracefulShutdown.cancels
  cancelled,       \* contexts whose cancel function has run
  wg,              \* GracefulShutdown.waitGroup counter
  sdPc,            \* position of GracefulShutdown.shutdown's goroutine
  sdSnap,          \* the slice the range loop of shutdown iterates
  sdIdx,           \* next index of that loop
  sdResult,        \* what shutdown returned
  deliv,           \* the messages the receive loops are handling, by slot
  dispatch,        \* the last Dispatch call: its message, what the adapter got, its result
  config,          \* PubsubConfig of the adapters (made = newPubsubAdapter has run)
  brokerTopics,    \* the topics that exist in the broker
  brokerSubs,      \* the subscriptions that exist in the broker, with their policy
  pTopics,         \* pubsubAdapter.topics of each adapter instance (the keys)
  task,            \* each goroutine inside the adapter: operation, position, error
  rpcFailures,     \* broker requests that failed so far
  topicCreates,    \* CreateTopic requests issued so far, by topic
  addView,         \* gs.cancels as the append of each call's Shutdown.Add has read it
  inbox,           \* a message published to the queue: where the broker has it, its deliveries
  conn             \* sql.Connection: db, the mutex, and each goroutine inside DB

vars == <<RestartTimeout, pc, handlers, queue, ctx, frames, invoked, slept, err,
          result, failures, cancels, cancelled, wg, sdPc, sdSnap, sdIdx, sdResult,
          deliv, dispatch, config, brokerTopics, brokerSubs, pTopics, task,
          rpcFailures, topicCreates, addView, inbox, conn>>

callVars == <<pc, handlers, queue, ctx, frames, invoked, slept, err, result, failures>>
shutdownVars == <<sdPc, sdSnap, sdIdx, sdResult>>
coordVars == <<cancels, cancelled, wg>>
provVars == <<config, brokerTopics, brokerSubs, pTopics, task, rpcFailures, topicCreates>>
otherVars == <<addView, inbox, conn>>
msgrVars == <<RestartTimeout, callVars, shutdownVars, coordVars, deliv, dispatch, otherVars>>

NoMsg == [id |-> "", queue |-> "", payload |-> ""]
NoMessage == [Queue |-> "", Identifier |-> "", Body |-> ""]
FreeSlot ==
  [stage |-> "free", call |-> 0, env |-> [ok |-> FALSE, type |-> "", bodyOK |-> FALSE],
   handled |-> <<>>, cb |-> "none", acks |-> 0, nacks |-> 0,
   got |-> NoMessage, decoded |-> "", target |-> 0]
\* c.db == nil, and a goroutine that is not inside DB.
NoDB == 0
IdleCall ==
  [pc |-> "idle", autoRetry |-> FALSE, attempts |-> 0, failed |-> FALSE, ret |-> NoDB]
NoInbox ==
  [where |-> "none", env |-> [ok |-> FALSE, type |-> "", bodyOK |-> FALSE],
   attempts |-> 0, nacked |-> 0, acked |-> 0, succeeded |-> FALSE]
IdleTask ==
  [op |-> "none", inst |-> 0, queue |-> "", level |-> 0, pc |-> "idle", err |-> Nil,
   failed |-> FALSE, ignored |-> Nil, acked |-> FALSE,
   snap |-> [topics |-> {}, subs |-> {}, policy |-> NoSub]]

\* ------------------------------------------------------------ messenger
\* (mutant) the prefix applied to a name that already carries it.
prefixQueueTwice(q) == Environment \o "." \o Environment \o "." \o q

\* prefixQueue: the environment name, a dot, the queue.
prefixQueue(q) == Environment \o "." \o q

\* (mutant) a Subscribe call without handlers is rejected.
RECURSIVE ScanQueuesRejectEmpty(_, _, _)
ScanQueuesRejectEmpty(h, i, q) ==
  IF Len(h) = 0 THEN [mismatch |-> TRUE, queue |-> q]
  ELSE IF i > Len(h) THEN [mismatch |-> FALSE, queue |-> q]
  ELSE IF q = "" THEN ScanQueuesRejectEmpty(h, i + 1, h[i].queue)
  ELSE IF q # h[i].queue THEN [mismatch |-> TRUE, queue |-> q]
  ELSE ScanQueuesRejectEmpty(h, i + 1, q)

\* The validation loop of Subscribe over h[i..]: queue is the loop variable.
RECURSIVE ScanQueues(_, _, _)
ScanQueues(h, i, q) ==
  IF i > Len(h) THEN [mismatch |-> FALSE, queue |-> q]
  ELSE IF q = "" THEN ScanQueues(h, i + 1, h[i].queue)
  ELSE IF q # h[i].queue THEN [mismatch |-> TRUE, queue |-> q]
  ELSE ScanQueues(h, i + 1, q)

\* ctx.Err(): nil until the context's cancel function has run.
CtxErr(k) == IF k \in cancelled THEN Canceled ELSE Nil

Init ==
  /\ RestartTimeout \in {0, 1}
  /\ pc = [c \in Calls |-> "idle"]
  /\ handlers = [c \in Calls |-> <<>>]
  /\ queue = [c \in Calls |-> ""]
  /\ ctx = [c \in Calls |-> <<0, 0>>]
  /\ frames = [c \in Calls |-> 0]
  /\ invoked = [c \in Calls |-> 0]
  /\ slept = [c \in Calls |-> 0]
  /\ err = [c \in Calls |-> Nil]
  /\ result = [c \in Calls |-> "none"]
  /\ failures = 0
  /\ cancels = <<>>
  /\ cancelled = {}
  /\ wg = 0
  /\ sdPc = "idle"
  /\ sdSnap = <<>>
  /\ sdIdx = 1
  /\ sdResult = "none"
  /\ deliv = [d \in AllSlots |-> FreeSlot]
  /\ dispatch = [msg |-> NoMsg, sent |-> NoMessage, calls |-> 0, result |-> "none"]
  /\ config = [made |-> FALSE, DeadLetterTopic |-> ""]
  /\ brokerTopics = {}
  /\ brokerSubs = [n \in Names |-> NoSub]
  /\ pTopics = [i \in Instances |-> {}]
  /\ task = [t \in Tasks |-> IdleTask]
  /\ rpcFailures = 0
  /\ topicCreates = [n \in Names |-> 0]
  /\ addView = [c \in Calls |-> <<>>]
  /\ inbox = NoInbox
  /\ conn = [db |-> NoDB, lock |-> 0, stores |-> 0, failures |-> 0,
             g |-> [g \in Goroutines |-> IdleCall]]

\* -------------------------------------------------- GracefulShutdown
\* The context made by the n-th Add of call c.
NewCtx(c) == <<c, invoked[c] + 1>>
NoCtx == <<0, 0>>

\* Add: a new cancellable context, its cancel appended to cancels, waitGroup.Add(1).
Add(k) ==
  /\ cancels' = Append(cancels, k)
  /\ wg' = wg + 1

\* ------------------------------------------------ Messenger.Subscribe
\* (mutant) the check of the queues made after the registration for shutdown.
SubscribeRejectLate(c, h) ==
  /\ pc' = [pc EXCEPT ![c] = "done"]
  /\ result' = [result EXCEPT ![c] = ErrDifferentQueues]
  /\ cancels' = Append(cancels, NewCtx(c))
  /\ wg' = wg - frames[c]
  /\ frames' = [frames EXCEPT ![c] = 0]
  /\ UNCHANGED <<queue, ctx, invoked>>

\* Validation failed: return ErrDifferentQueues before anything else is done.
\* (frames[c] outer frames, if any, run their deferred Done on the way out.)
SubscribeReject(c, h) ==
  /\ pc' = [pc EXCEPT ![c] = "done"]
  /\ result' = [result EXCEPT ![c] = ErrDifferentQueues]
  /\ wg' = wg - frames[c]
  /\ frames' = [frames EXCEPT ![c] = 0]
  /\ UNCHANGED <<queue, ctx, invoked, cancels>>

\* (mutant) Shutdown.Done is called right after Add, not deferred to the return.
SubscribeAcceptDoneEarly(c, h) ==
  /\ cancels' = Append(cancels, NewCtx(c))
  /\ wg' = wg
  /\ queue' = [queue EXCEPT ![c] = prefixQueue(ScanQueues(h, 1, "").queue)]
  /\ ctx' = [ctx EXCEPT ![c] = NewCtx(c)]
  /\ frames' = frames
  /\ invoked' = [invoked EXCEPT ![c] = @ + 1]
  /\ pc' = [pc EXCEPT ![c] = "receiving"]
  /\ UNCHANGED result

\* Validation passed: prefix the queue, Shutdown.Add, defer Done, build the
\* closure over h and call adapter.Subscribe(queue, handleMessage, ctx).
SubscribeAccept(c, h) ==
  /\ Add(NewCtx(c))
  /\ queue' = [queue EXCEPT ![c] = prefixQueue(ScanQueues(h, 1, "").queue)]
  /\ ctx' = [ctx EXCEPT ![c] = NewCtx(c)]
  /\ frames' = [frames EXCEPT ![c] = @ + 1]
  /\ invoked' = [invoked EXCEPT ![c] = @ + 1]
  /\ pc' = [pc EXCEPT ![c] = "receiving"]
  /\ UNCHANGED result

\* The body of Subscribe up to the adapter call.
SubscribeBody(c, h) ==
  IF ScanQueues(h, 1, "").mismatch THEN SubscribeReject(c, h) ELSE SubscribeAccept(c, h)

\* A goroutine calls m.Subscribe(h...).
Subscribe(c, groups) ==
  /\ pc[c] = "idle"
  /\ \E h \in groups :
       /\ handlers' = [handlers EXCEPT ![c] = h]
       /\ SubscribeBody(c, h)
  /\ UNCHANGED <<RestartTimeout, slept, err, failures, cancelled>>
  /\ UNCHANGED shutdownVars
  /\ UNCHANGED <<deliv, dispatch, provVars, otherVars>>

\* Subscribe up to the middle of Shutdown.Add: the queues are checked and the
\* name prefixed, context.WithCancel has made the context, and append has read
\* gs.cancels. Add takes no lock, so other goroutines run between this read and
\* the store of the appended slice.
SubscribeEnter(c, groups) ==
  /\ pc[c] = "idle"
  /\ \E h \in groups :
       /\ handlers' = [handlers EXCEPT ![c] = h]
       /\ IF ScanQueues(h, 1, "").mismatch
            THEN SubscribeReject(c, h) /\ UNCHANGED addView
            ELSE /\ pc' = [pc EXCEPT ![c] = "adding"]
                 /\ queue' = [queue EXCEPT ![c] = prefixQueue(ScanQueues(h, 1, "").queue)]
                 /\ ctx' = [ctx EXCEPT ![c] = NewCtx(c)]
                 /\ addView' = [addView EXCEPT ![c] = cancels]
                 /\ UNCHANGED <<frames, invoked, result, cancels, wg>>
  /\ UNCHANGED <<RestartTimeout, slept, err, failures, cancelled>>
  /\ UNCHANGED shutdownVars
  /\ UNCHANGED <<deliv, dispatch, provVars, inbox, conn>>

\* The rest of Add and the call of the adapter: the slice append built from what
\* it read is stored in gs.cancels, waitGroup.Add(1), defer Done,
\* adapter.Subscribe(queue, handleMessage, ctx).
AddStore(c) ==
  /\ pc[c] = "adding"
  /\ cancels' = Append(addView[c], ctx[c])
  /\ wg' = wg + 1
  /\ frames' = [frames EXCEPT ![c] = @ + 1]
  /\ invoked' = [invoked EXCEPT ![c] = @ + 1]
  /\ pc' = [pc EXCEPT ![c] = "receiving"]
  /\ UNCHANGED <<RestartTimeout, handlers, queue, ctx, slept, err, result, failures, cancelled>>
  /\ UNCHANGED shutdownVars
  /\ UNCHANGED <<deliv, dispatch, provVars, addView, inbox, conn>>

\* An error the adapter returns of its own accord: anything but nil and but the
\* error of its context once that context is cancelled.
IsFailure(c, e) == e # Nil /\ ~(e = Canceled /\ ctx[c] \in cancelled)

\* adapter.Subscribe returns e. The context's error, as it is or wrapped, is
\* returned only when the context given to the adapter is its cause; at most
\* MaxFailures failures are injected.
AdapterReturn(c, e) ==
  /\ pc[c] = "receiving"
  /\ \A d \in Slots : deliv[d].call = c => deliv[d].stage \in {"free", "settled"}
  /\ e \in {Canceled, WrappedCanceled} => ctx[c] \in cancelled
  /\ IsFailure(c, e) => failures < MaxFailures
  /\ failures' = IF IsFailure(c, e) THEN failures + 1 ELSE failures
  /\ err' = [err EXCEPT ![c] = e]
  /\ pc' = [pc EXCEPT ![c] = "returned"]
  /\ UNCHANGED <<RestartTimeout, handlers, queue, ctx, frames, invoked, slept, result>>
  /\ UNCHANGED <<cancels, cancelled, wg>>
  /\ UNCHANGED shutdownVars
  /\ UNCHANGED <<deliv, dispatch, provVars, otherVars>>

\* (mutant) only the outermost frame runs a deferred Shutdown.Done.
ReturnAllDoneOnce(c, v) ==
  /\ pc' = [pc EXCEPT ![c] = "done"]
  /\ result' = [result EXCEPT ![c] = v]
  /\ wg' = wg - 1
  /\ frames' = [frames EXCEPT ![c] = 0]

\* Every frame of the call returns v: each runs its deferred Shutdown.Done.
ReturnAll(c, v) ==
  /\ pc' = [pc EXCEPT ![c] = "done"]
  /\ result' = [result EXCEPT ![c] = v]
  /\ wg' = wg - frames[c]
  /\ frames' = [frames EXCEPT ![c] = 0]

\* (mutant) only a nil error counts as a clean end.
IsCleanNilOnly(c) == err[c] = Nil

\* err == nil || err == ctx.Err(): return nil.
IsClean(c) == err[c] = Nil \/ err[c] = CtxErr(ctx[c])

ReturnClean(c) ==
  /\ pc[c] = "returned"
  /\ IsClean(c)
  /\ ReturnAll(c, Nil)
  /\ UNCHANGED <<RestartTimeout, handlers, queue, ctx, invoked, slept, err, failures>>
  /\ UNCHANGED <<cancels, cancelled>>
  /\ UNCHANGED shutdownVars
  /\ UNCHANGED <<deliv, dispatch, provVars, otherVars>>

\* (mutant) the error is logged and swallowed.
ReturnFatalSwallowed(c) ==
  /\ pc[c] = "returned"
  /\ ~IsClean(c)
  /\ RestartTimeout = 0
  /\ ReturnAll(c, Nil)
  /\ UNCHANGED <<RestartTimeout, handlers, queue, ctx, invoked, slept, err, failures>>
  /\ UNCHANGED <<cancels, cancelled>>
  /\ UNCHANGED shutdownVars
  /\ UNCHANGED <<deliv, dispatch, provVars, otherVars>>

\* (mutant) the error is returned whatever RestartTimeout is.
ReturnFatalAlways(c) ==
  /\ pc[c] = "returned"
  /\ ~IsClean(c)
  /\ ReturnAll(c, err[c])
  /\ UNCHANGED <<RestartTimeout, handlers, queue, ctx, invoked, slept, err, failures>>
  /\ UNCHANGED <<cancels, cancelled>>
  /\ UNCHANGED shutdownVars
  /\ UNCHANGED <<deliv, dispatch, provVars, otherVars>>

\* RestartTimeout == 0: return err.
ReturnFatal(c) ==
  /\ pc[c] = "returned"
  /\ ~IsClean(c)
  /\ RestartTimeout = 0
  /\ ReturnAll(c, err[c])
  /\ UNCHANGED <<RestartTimeout, handlers, queue, ctx, invoked, slept, err, failures>>
  /\ UNCHANGED <<cancels, cancelled>>
  /\ UNCHANGED shutdownVars
  /\ UNCHANGED <<deliv, dispatch, provVars, otherVars>>

\* (mutant) the nested call is made at once, without the sleep.
BackoffNoSleep(c) ==
  /\ pc[c] = "returned"
  /\ ~IsClean(c)
  /\ RestartTimeout # 0
  /\ SubscribeBody(c, handlers[c])
  /\ UNCHANGED <<RestartTimeout, handlers, slept, err, failures, cancelled>>
  /\ UNCHANGED shutdownVars
  /\ UNCHANGED <<deliv, dispatch, provVars, otherVars>>

\* Otherwise: time.Sleep(RestartTimeout) begins.
Backoff(c) ==
  /\ pc[c] = "returned"
  /\ ~IsClean(c)
  /\ RestartTimeout # 0
  /\ pc' = [pc EXCEPT ![c] = "backoff"]
  /\ UNCHANGED <<RestartTimeout, handlers, queue, ctx, frames, invoked, slept, err, result, failures>>
  /\ UNCHANGED <<cancels, cancelled, wg>>
  /\ UNCHANGED shutdownVars
  /\ UNCHANGED <<deliv, dispatch, provVars, otherVars>>

\* The sleep ends: return m.Subscribe(h...), a nested call with the same handlers.
Restart(c) ==
  /\ pc[c] = "backoff"
  /\ slept' = [slept EXCEPT ![c] = @ + 1]
  /\ SubscribeBody(c, handlers[c])
  /\ UNCHANGED <<RestartTimeout, handlers, err, failures, cancelled>>
  /\ UNCHANGED shutdownVars
  /\ UNCHANGED <<deliv, dispatch, provVars, otherVars>>

\* ------------------------------------------------- Messenger.Dispatch
\* json.Marshal(msg): fails on a value JSON cannot represent.
MarshalFails(msg) == msg.payload = "NaN"
Marshal(msg) == "{\"payload\":" \o msg.payload \o "}"

\* The adapterMessage Dispatch builds.
AdapterMessage(msg) ==
  [Queue |-> prefixQueue(msg.queue), Identifier |-> msg.id, Body |-> Marshal(msg)]

\* Dispatch(msg): marshal, hand the adapterMessage to adapter.Dispatch, return
\* its error r; a marshal error is returned before the adapter is called.
Dispatch(msg) ==
  /\ IF MarshalFails(msg)
       THEN dispatch' = [msg |-> msg, sent |-> NoMessage, calls |-> 0, result |-> ErrMarshal]
       ELSE \E r \in {Nil, ErrPublish} :
              dispatch' = [msg |-> msg, sent |-> AdapterMessage(msg), calls |-> 1, result |-> r]
  /\ UNCHANGED <<RestartTimeout, deliv, provVars, otherVars>>
  /\ UNCHANGED callVars
  /\ UNCHANGED coordVars
  /\ UNCHANGED shutdownVars

\* --------------------------------- pubsubAdapter.Subscribe: receive loop
\* The receive loop of call c hands a message to the callback (slot d).
Receive(c, d) ==
  /\ pc[c] = "receiving"
  /\ ctx[c] \notin cancelled
  /\ deliv[d].stage \in {"free", "settled"}
  /\ \E e \in Envelopes :
       deliv' = [deliv EXCEPT ![d] = [FreeSlot EXCEPT !.stage = "callback", !.call = c, !.env = e]]
  /\ UNCHANGED <<RestartTimeout, dispatch, provVars, otherVars>>
  /\ UNCHANGED callVars
  /\ UNCHANGED coordVars
  /\ UNCHANGED shutdownVars

\* encoding/json writes a string with invalid UTF-8 replaced by U+FFFD.
ToValidUTF8(str) == IF str = "\\xff" THEN "\\ufffd" ELSE str

\* pubsubAdapter.Dispatch: the pubsubMessage marshalled into Data; and the
\* callback of Subscribe: Data unmarshalled into the adapterMessage for h.
EnvelopeData(a) == [type |-> ToValidUTF8(a.Identifier), body |-> ToValidUTF8(a.Body)]
FromEnvelope(data, q) == [Queue |-> q, Identifier |-> data.type, Body |-> data.body]

\* The JSON value of the field "payload" in a body {"payload":V} ("" if the body
\* is not of that form).
PayloadValue(body) ==
  IF Len(body) > 12 /\ SubSeq(body, 1, 11) = "{\"payload\":"
       /\ SubSeq(body, Len(body), Len(body)) = "}"
    THEN SubSeq(body, 12, Len(body) - 1)
    ELSE ""
IsJSONString(v) == Len(v) >= 2 /\ SubSeq(v, 1, 1) = "\"" /\ SubSeq(v, Len(v), Len(v)) = "\""
IsJSONObject(v) == Len(v) >= 2 /\ SubSeq(v, 1, 1) = "{" /\ SubSeq(v, Len(v), Len(v)) = "}"
IsJSONNumber(v) == v \in {"0", "1", "2"}

\* json.Unmarshal([]byte(a.Body), msg) for the message of the handler with
\* identifier id. The webhook message has its own UnmarshalJSON: "payload" must
\* be a JSON string, whose content is unmarshalled into the WebhookPayload; the
\* other messages are decoded field by field.
Unmarshal(id, body) ==
  LET v == PayloadValue(body) IN
  IF id = "webhook" THEN
    IF IsJSONString(v) /\ IsJSONObject(SubSeq(v, 2, Len(v) - 1))
      THEN [ok |-> TRUE, payload |-> SubSeq(v, 2, Len(v) - 1)]
      ELSE [ok |-> FALSE, payload |-> ""]
  ELSE IF IsJSONNumber(v) THEN [ok |-> TRUE, payload |-> v]
  ELSE [ok |-> FALSE, payload |-> ""]

\* (mutant) the loop goes on after a match: the last matching handler wins.
RECURSIVE FindHandlerLast(_, _, _)
FindHandlerLast(h, i, id) ==
  IF i > Len(h) THEN 0
  ELSE LET rest == FindHandlerLast(h, i + 1, id) IN
       IF rest # 0 THEN rest ELSE IF id = h[i].id THEN i ELSE 0

\* handleMessage's loop over h[i..]: the index of the handler whose message has
\* the identifier, 0 when the loop ends without one.
RECURSIVE FindHandler(_, _, _)
FindHandler(h, i, id) ==
  IF i > Len(h) THEN 0
  ELSE IF id = h[i].id THEN i
  ELSE FindHandler(h, i + 1, id)

\* The receive loop of call c is handed the message the last Dispatch published
\* to its queue: the callback decodes Data, handleMessage finds the handler and
\* unmarshals the body into its message.
Deliver(c, d) ==
  /\ pc[c] = "receiving"
  /\ ctx[c] \notin cancelled
  /\ deliv[d].stage \in {"free", "settled"}
  /\ dispatch.calls = 1 /\ dispatch.result = Nil
  /\ dispatch.sent.Queue = queue[c]
  /\ LET a == FromEnvelope(EnvelopeData(dispatch.sent), queue[c])
         k == FindHandler(handlers[c], 1, a.Identifier)
         u == IF k = 0 THEN [ok |-> FALSE, payload |-> ""]
              ELSE Unmarshal(handlers[c][k].id, a.Body) IN
     deliv' = [deliv EXCEPT ![d] =
                 [FreeSlot EXCEPT !.stage = "callback", !.call = c,
                                  !.env = [ok |-> TRUE, type |-> a.Identifier, bodyOK |-> u.ok],
                                  !.got = a, !.decoded = u.payload]]
  /\ UNCHANGED <<RestartTimeout, dispatch, provVars, otherVars>>
  /\ UNCHANGED callVars
  /\ UNCHANGED coordVars
  /\ UNCHANGED shutdownVars

\* (mutant) the callback acknowledges a message whose envelope does not decode.
AckUndecoded(r) == [r EXCEPT !.stage = "settled", !.acks = @ + 1]

\* The envelope does not decode: msg.Nack() and return.
NackUndecoded(r) == [r EXCEPT !.stage = "settled", !.nacks = @ + 1]

\* (mutant) the return after msg.Nack() is missing: msg.Ack() follows it.
SettleNoReturn(r, e) ==
  [r EXCEPT !.stage = "settled", !.cb = e,
            !.acks = @ + 1,
            !.nacks = IF e # Nil THEN @ + 1 ELSE @]

\* h returned e: msg.Nack() and return if it is an error, msg.Ack() otherwise.
Settle(r, e) ==
  [r EXCEPT !.stage = "settled", !.cb = e,
            !.acks = IF e = Nil THEN @ + 1 ELSE @,
            !.nacks = IF e # Nil THEN @ + 1 ELSE @]

\* The message instances in use: those a Handle call is working on.
Live == {deliv[d].target : d \in {x \in AllSlots : deliv[x].stage = "inHandle"}}

\* (mutant) the handler hands out one instance, the same at every call.
MessageShared == CHOOSE a \in Addresses : \A b \in Addresses : a <= b

\* handler.Message(): a newly allocated message (&message{}), at an address no
\* instance in use has.
MessageInstance == CHOOSE a \in Addresses : a \notin Live /\ \A b \in Addresses \ Live : a <= b

\* (mutant) the error of json.Unmarshal is logged and Handle is called all the same.
HandleMessageDecodeIgnored(r, h) ==
  LET k == FindHandler(h, 1, r.env.type) IN
  IF k = 0 THEN Settle(r, ErrNoHandler)
  ELSE [r EXCEPT !.stage = "inHandle", !.handled = Append(@, k), !.target = MessageInstance]

\* What handleMessage does with the adapterMessage up to the call of Handle:
\* the handler is found, msg := handler.Message(), the body is decoded into msg.
HandleMessage(r, h) ==
  LET k == FindHandler(h, 1, r.env.type) IN
  IF k = 0 THEN Settle(r, ErrNoHandler)
  ELSE IF ~r.env.bodyOK THEN Settle(r, ErrUnmarshal)
  ELSE [r EXCEPT !.stage = "inHandle", !.handled = Append(@, k), !.target = MessageInstance]

\* The callback of sub.Receive on the message of slot d, up to the call of Handle.
Callback(d) ==
  /\ deliv[d].stage = "callback"
  /\ deliv' = [deliv EXCEPT ![d] =
                 IF ~deliv[d].env.ok THEN NackUndecoded(deliv[d])
                 ELSE HandleMessage(deliv[d], handlers[deliv[d].call])]
  /\ UNCHANGED <<RestartTimeout, dispatch, provVars, otherVars>>
  /\ UNCHANGED callVars
  /\ UNCHANGED coordVars
  /\ UNCHANGED shutdownVars

\* handler.Handle(msg) returns e, handleMessage returns it, the callback settles.
HandleReturn(d, e) ==
  /\ deliv[d].stage = "inHandle"
  /\ deliv' = [deliv EXCEPT ![d] = Settle(deliv[d], e)]
  /\ UNCHANGED <<RestartTimeout, dispatch, provVars, otherVars>>
  /\ UNCHANGED callVars
  /\ UNCHANGED coordVars
  /\ UNCHANGED shutdownVars

\* --------------------------------------------- GracefulShutdown.shutdown
\* shutdown(timeout) starts its goroutine, whose range loop reads gs.cancels once.
ShutdownStart ==
  /\ sdPc = "idle"
  /\ sdPc' = "firing"
  /\ sdSnap' = cancels
  /\ sdIdx' = 1
  /\ UNCHANGED <<sdResult, RestartTimeout, cancels, cancelled, wg>>
  /\ UNCHANGED callVars
  /\ UNCHANGED <<deliv, dispatch, provVars, otherVars>>

\* One iteration of the loop: cancel().
ShutdownFire ==
  /\ sdPc = "firing"
  /\ sdIdx <= Len(sdSnap)
  /\ cancelled' = cancelled \cup {sdSnap[sdIdx]}
  /\ sdIdx' = sdIdx + 1
  /\ UNCHANGED <<sdPc, sdSnap, sdResult, RestartTimeout, cancels, wg>>
  /\ UNCHANGED callVars
  /\ UNCHANGED <<deliv, dispatch, provVars, otherVars>>

\* (mutant) cancelCtx is called after the loop, without waitGroup.Wait().
ShutdownDrainedNoWait ==
  /\ sdPc = "firing"
  /\ sdIdx > Len(sdSnap)
  /\ sdPc' = "finished"
  /\ sdResult' = IF sdResult = "none" THEN Nil ELSE sdResult
  /\ UNCHANGED <<sdSnap, sdIdx, RestartTimeout, cancels, cancelled, wg>>
  /\ UNCHANGED callVars
  /\ UNCHANGED <<deliv, dispatch, provVars, otherVars>>

\* The loop is over and waitGroup.Wait() returns (counter zero), cancelCtx():
\* shutdown returns nil unless the timeout came first.
ShutdownDrained ==
  /\ sdPc = "firing"
  /\ sdIdx > Len(sdSnap)
  /\ wg = 0
  /\ sdPc' = "finished"
  /\ sdResult' = IF sdResult = "none" THEN Nil ELSE sdResult
  /\ UNCHANGED <<sdSnap, sdIdx, RestartTimeout, cancels, cancelled, wg>>
  /\ UNCHANGED callVars
  /\ UNCHANGED <<deliv, dispatch, provVars, otherVars>>

\* The timeout context expires first: shutdown returns its error.
ShutdownTimeout ==
  /\ sdPc = "firing"
  /\ sdResult = "none"
  /\ sdResult' = DeadlineExceeded
  /\ UNCHANGED <<sdPc, sdSnap, sdIdx, RestartTimeout, cancels, cancelled, wg>>
  /\ UNCHANGED callVars
  /\ UNCHANGED <<deliv, dispatch, provVars, otherVars>>

\* The timeout of shutdown, 30 seconds (App.Run), against the steps of its
\* goroutine, which take no such time: the timeout expires only while that
\* goroutine is blocked in waitGroup.Wait().
ShutdownDeadline ==
  /\ sdIdx > Len(sdSnap)
  /\ wg > 0
  /\ ShutdownTimeout

\* ------------------------------------------------------ sql.Connection
\* Goroutine g calls c.DB(autoRetry).
DBCall(g, autoRetry) ==
  /\ conn.g[g].pc = "idle"
  /\ conn' = [conn EXCEPT !.g[g] = [IdleCall EXCEPT !.pc = "check", !.autoRetry = autoRetry]]
  /\ UNCHANGED <<provVars, addView, inbox>>
  /\ UNCHANGED <<RestartTimeout, callVars, shutdownVars, coordVars, deliv, dispatch>>

\* DB: if c.db == nil { c.setupDB(autoRetry) }, the read made without the mutex.
DBCheck(g) ==
  /\ conn.g[g].pc = "check"
  /\ conn' = [conn EXCEPT !.g[g].pc = IF conn.db = NoDB THEN "lock" ELSE "return"]
  /\ UNCHANGED <<provVars, addView, inbox>>
  /\ UNCHANGED <<RestartTimeout, callVars, shutdownVars, coordVars, deliv, dispatch>>

\* (mutant) setupDB connects without looking at c.db once it has the mutex.
setupDBLockNoCheck(g) ==
  /\ conn.g[g].pc = "lock"
  /\ conn.lock = 0
  /\ conn' = [conn EXCEPT !.lock = g, !.g[g].pc = "open"]
  /\ UNCHANGED <<provVars, addView, inbox>>
  /\ UNCHANGED <<RestartTimeout, callVars, shutdownVars, coordVars, deliv, dispatch>>

\* setupDB: c.Lock(); if c.db != nil { c.Unlock(); return }.
setupDBLock(g) ==
  /\ conn.g[g].pc = "lock"
  /\ conn.lock = 0
  /\ conn' = IF conn.db # NoDB
               THEN [conn EXCEPT !.g[g].pc = "return"]
               ELSE [conn EXCEPT !.lock = g, !.g[g].pc = "open"]
  /\ UNCHANGED <<provVars, addView, inbox>>
  /\ UNCHANGED <<RestartTimeout, callVars, shutdownVars, coordVars, deliv, dispatch>>

\* setupDB: sqlx.Open and db.Ping. On success c.db = db, c.Unlock(), return; on
\* failure c.Unlock() and return without autoRetry, time.Sleep with the mutex
\* held otherwise. The handle a goroutine opens is named after it.
setupDBOpen(g, ok) ==
  /\ conn.g[g].pc = "open"
  /\ ~ok => conn.failures < MaxConnectFailures
  /\ conn' =
       IF ok THEN
         [conn EXCEPT !.db = g, !.stores = @ + 1, !.lock = 0,
                      !.g[g].attempts = @ + 1, !.g[g].pc = "return"]
       ELSE IF ~conn.g[g].autoRetry THEN
         [conn EXCEPT !.failures = @ + 1, !.lock = 0,
                      !.g[g].attempts = @ + 1, !.g[g].failed = TRUE, !.g[g].pc = "return"]
       ELSE
         [conn EXCEPT !.failures = @ + 1,
                      !.g[g].attempts = @ + 1, !.g[g].failed = TRUE, !.g[g].pc = "sleep"]
  /\ UNCHANGED <<provVars, addView, inbox>>
  /\ UNCHANGED <<RestartTimeout, callVars, shutdownVars, coordVars, deliv, dispatch>>

\* setupDB: the sleep is over: c.Unlock(); c.setupDB(true).
setupDBRetry(g) ==
  /\ conn.g[g].pc = "sleep"
  /\ conn' = [conn EXCEPT !.lock = 0, !.g[g].pc = "lock"]
  /\ UNCHANGED <<provVars, addView, inbox>>
  /\ UNCHANGED <<RestartTimeout, callVars, shutdownVars, coordVars, deliv, dispatch>>

\* DB: return c.db, read without the mutex.
DBReturn(g) ==
  /\ conn.g[g].pc = "return"
  /\ conn' = [conn EXCEPT !.g[g].ret = conn.db, !.g[g].pc = "done"]
  /\ UNCHANGED <<provVars, addView, inbox>>
  /\ UNCHANGED <<RestartTimeout, callVars, shutdownVars, coordVars, deliv, dispatch>>

\* The caller goes on; the goroutine may call DB again.
DBDone(g) ==
  /\ conn.g[g].pc = "done"
  /\ conn' = [conn EXCEPT !.g[g] = IdleCall]
  /\ UNCHANGED <<provVars, addView, inbox>>
  /\ UNCHANGED <<RestartTimeout, callVars, shutdownVars, coordVars, deliv, dispatch>>

\* Goroutines calling DB on one Connection at the same time.
NextDB ==
  \/ \E g \in Goroutines, autoRetry \in BOOLEAN : DBCall(g, autoRetry)
  \/ \E g \in Goroutines : DBCheck(g)
  \/ \E g \in Goroutines : setupDBLock(g)
  \/ \E g \in Goroutines, ok \in BOOLEAN : setupDBOpen(g, ok)
  \/ \E g \in Goroutines : setupDBRetry(g)
  \/ \E g \in Goroutines : DBReturn(g)
  \/ \E g \in Goroutines : DBDone(g)

SpecDB == Init /\ [][NextDB]_vars

\* ------------------------------------------- pubsubAdapter: provisioning
\* newPubsubAdapter(c): the configuration every adapter instance is made with.
newPubsubAdapter(dl) ==
  /\ ~config.made
  /\ config' = [made |-> TRUE, DeadLetterTopic |-> dl]
  /\ UNCHANGED <<brokerTopics, brokerSubs, pTopics, task, rpcFailures, topicCreates>>
  /\ UNCHANGED msgrVars

\* (mutant) the adapter is made with the dead-letter name as configured.
NewUnprefixed(name) == newPubsubAdapter(name)

\* messenger.New(c): the dead-letter name of the configuration is prefixed with
\* the environment and the adapter is made with the result.
New(name) == newPubsubAdapter(Environment \o "." \o name)

\* No goroutine is between the start of an adapter operation and its receive
\* loop or return.
Quiet == \A t \in Tasks : task[t].pc \in {"idle", "receiving", "done"}

\* The resource the task is resolving: the queue, or in the nested call of
\* subscription() the dead-letter topic.
Resource(r) == IF r.level = 1 THEN config.DeadLetterTopic ELSE r.queue

\* The subscriptions that exist, and what the broker holds when an operation on
\* queue q begins (kept with the task, for the comparison afterwards).
ExistingSubs == {n \in Names : brokerSubs[n] # NoSub}
Snapshot(q) == [topics |-> brokerTopics, subs |-> ExistingSubs, policy |-> brokerSubs[q]]

\* p.Subscribe(queue, h, ctx) is called on instance i: subscription(queue, queue,
\* DeadLetterTopic) begins with topic(queue, true).
pubsubSubscribe(t, i, q) ==
  /\ config.made
  /\ task[t].pc = "idle"
  /\ task' = [task EXCEPT ![t] =
                [IdleTask EXCEPT !.op = "subscribe", !.inst = i, !.queue = q, !.pc = "topic",
                                 !.snap = Snapshot(q)]]
  /\ UNCHANGED <<config, brokerTopics, brokerSubs, pTopics, rpcFailures, topicCreates>>
  /\ UNCHANGED msgrVars

\* A goroutine that has just called p.Dispatch of instance i for queue q.
DispatchTask(i, q) ==
  [IdleTask EXCEPT !.op = "dispatch", !.inst = i, !.queue = q, !.pc = "topic",
                   !.snap = Snapshot(q)]

\* p.Dispatch(msg) is called on instance i: topic(msg.Queue, false).
pubsubDispatch(t, i, q) ==
  /\ config.made
  /\ task[t].pc = "idle"
  /\ task' = [task EXCEPT ![t] = DispatchTask(i, q)]
  /\ UNCHANGED <<config, brokerTopics, brokerSubs, pTopics, rpcFailures, topicCreates>>
  /\ UNCHANGED msgrVars

\* Where the caller of topic() goes on when it returned a topic: Dispatch
\* publishes, subscription() looks for the subscription.
AfterTopic(r) == IF r.op = "dispatch" THEN "publish" ELSE "subExists"

\* An operation returns the error e of a failed request.
Fails(r, e) == [r EXCEPT !.pc = "done", !.err = e, !.failed = TRUE]

\* (mutant) topic() checks and creates whatever the create argument is.
topicAlwaysCreates(t) ==
  LET r == task[t] IN
  /\ r.pc = "topic"
  /\ task' = [task EXCEPT ![t].pc =
                IF Resource(r) \in pTopics[r.inst] THEN AfterTopic(r)
                ELSE "topicExists"]
  /\ UNCHANGED <<config, brokerTopics, brokerSubs, pTopics, rpcFailures, topicCreates>>
  /\ UNCHANGED msgrVars

\* topic(queue, create): the lookup in p.topics; on a miss the existence check
\* follows if create is set, the store in the map otherwise.
topic(t) ==
  LET r == task[t] IN
  /\ r.pc = "topic"
  /\ task' = [task EXCEPT ![t].pc =
                IF Resource(r) \in pTopics[r.inst] THEN AfterTopic(r)
                ELSE IF r.op = "subscribe" THEN "topicExists"
                ELSE "topicStore"]
  /\ UNCHANGED <<config, brokerTopics, brokerSubs, pTopics, rpcFailures, topicCreates>>
  /\ UNCHANGED msgrVars

\* createTopicIfNotExists: topic.Exists answers, or fails (ok = FALSE).
topicExists(t, ok) ==
  LET r == task[t] IN
  /\ r.pc = "topicExists"
  /\ ~ok => rpcFailures < MaxRpcFailures
  /\ rpcFailures' = IF ok THEN rpcFailures ELSE rpcFailures + 1
  /\ task' = [task EXCEPT ![t] =
                IF ~ok THEN Fails(r, ErrBroker)
                ELSE IF Resource(r) \in brokerTopics THEN [r EXCEPT !.pc = "topicStore"]
                ELSE [r EXCEPT !.pc = "topicCreate"]]
  /\ UNCHANGED <<config, brokerTopics, brokerSubs, pTopics, topicCreates>>
  /\ UNCHANGED msgrVars

\* createTopicIfNotExists: client.CreateTopic creates the topic, or fails: the
\* broker is unavailable, or the topic exists by now.
CreateTopic(t, ok) ==
  LET r == task[t]
      n == Resource(r) IN
  /\ r.pc = "topicCreate"
  /\ ~ok => rpcFailures < MaxRpcFailures
  /\ rpcFailures' = IF ok THEN rpcFailures ELSE rpcFailures + 1
  /\ topicCreates' = [topicCreates EXCEPT ![n] = @ + 1]
  /\ IF ~ok THEN
       /\ task' = [task EXCEPT ![t] = Fails(r, ErrBroker)]
       /\ UNCHANGED brokerTopics
     ELSE IF n \in brokerTopics THEN
       /\ task' = [task EXCEPT ![t] = Fails(r, ErrAlreadyExists)]
       /\ UNCHANGED brokerTopics
     ELSE
       /\ task' = [task EXCEPT ![t].pc = "topicStore"]
       /\ brokerTopics' = brokerTopics \cup {n}
  /\ UNCHANGED <<config, brokerSubs, pTopics>>
  /\ UNCHANGED msgrVars

\* topic(): p.Lock(); p.topics[queue] = topic; p.Unlock(); return topic.
topicStore(t) ==
  LET r == task[t] IN
  /\ r.pc = "topicStore"
  /\ pTopics' = [pTopics EXCEPT ![r.inst] = @ \cup {Resource(r)}]
  /\ task' = [task EXCEPT ![t].pc = AfterTopic(r)]
  /\ UNCHANGED <<config, brokerTopics, brokerSubs, rpcFailures, topicCreates>>
  /\ UNCHANGED msgrVars

\* subscription(): what follows createSubscriptionIfNotExists, whose error is
\* not looked at. Without a dead-letter topic the subscription is returned
\* (Subscribe goes on to sub.Receive); with one, the nested subscription(dl, dl, "")
\* is called, and when that one is through the primary subscription is updated.
AfterSub(r) ==
  IF r.level = 1 THEN [r EXCEPT !.level = 0, !.pc = "update"]
  ELSE IF config.DeadLetterTopic = "" THEN [r EXCEPT !.pc = "receive"]
  ELSE [r EXCEPT !.level = 1, !.pc = "topic"]

\* A request of createSubscriptionIfNotExists failed with e: the error is dropped.
Ignores(r, e) == AfterSub([r EXCEPT !.failed = TRUE, !.ignored = e])

\* (mutant) the subscription is created without the existence check.
subExistsUnchecked(t, ok) ==
  LET r == task[t] IN
  /\ r.pc = "subExists"
  /\ ~ok => rpcFailures < MaxRpcFailures
  /\ rpcFailures' = IF ok THEN rpcFailures ELSE rpcFailures + 1
  /\ task' = [task EXCEPT ![t] =
                IF ~ok THEN Ignores(r, ErrBroker) ELSE [r EXCEPT !.pc = "subCreate"]]
  /\ UNCHANGED <<config, brokerTopics, brokerSubs, pTopics, topicCreates>>
  /\ UNCHANGED msgrVars

\* createSubscriptionIfNotExists: sub.Exists answers, or fails.
subExists(t, ok) ==
  LET r == task[t] IN
  /\ r.pc = "subExists"
  /\ ~ok => rpcFailures < MaxRpcFailures
  /\ rpcFailures' = IF ok THEN rpcFailures ELSE rpcFailures + 1
  /\ task' = [task EXCEPT ![t] =
                IF ~ok THEN Ignores(r, ErrBroker)
                ELSE IF brokerSubs[Resource(r)] # NoSub THEN AfterSub(r)
                ELSE [r EXCEPT !.pc = "subCreate"]]
  /\ UNCHANGED <<config, brokerTopics, brokerSubs, pTopics, topicCreates>>
  /\ UNCHANGED msgrVars

\* createSubscriptionIfNotExists: client.CreateSubscription with the default
\* configuration; it fails when the broker is unavailable, when the topic does
\* not exist and when the subscription exists by now.
CreateSubscription(t, ok) ==
  LET r == task[t]
      n == Resource(r) IN
  /\ r.pc = "subCreate"
  /\ ~ok => rpcFailures < MaxRpcFailures
  /\ rpcFailures' = IF ok THEN rpcFailures ELSE rpcFailures + 1
  /\ IF ~ok THEN
       /\ task' = [task EXCEPT ![t] = Ignores(r, ErrBroker)]
       /\ UNCHANGED brokerSubs
     ELSE IF n \notin brokerTopics THEN
       /\ task' = [task EXCEPT ![t] = Ignores(r, ErrNotFound)]
       /\ UNCHANGED brokerSubs
     ELSE IF brokerSubs[n] # NoSub THEN
       /\ task' = [task EXCEPT ![t] = Ignores(r, ErrAlreadyExists)]
       /\ UNCHANGED brokerSubs
     ELSE
       /\ task' = [task EXCEPT ![t] = AfterSub(r)]
       /\ brokerSubs' = [brokerSubs EXCEPT ![n] = PolicyDefault]
  /\ UNCHANGED <<config, brokerTopics, pTopics, topicCreates>>
  /\ UNCHANGED msgrVars

\* (mutant) the policy is applied only to a subscription nobody has changed.
UpdatePolicyIfDefault(old) == IF old = PolicyDefault THEN PolicyConfigured ELSE old

\* The configuration sub.Update leaves: the dead-letter policy and the retry
\* policy of the adapter, whatever the subscription had.
UpdatePolicy(old) == PolicyConfigured

\* subscription(): sub.Update applies the dead-letter and the retry policy; it
\* fails when the broker is unavailable and when the subscription or the
\* dead-letter topic does not exist, and its error is returned.
Update(t, ok) ==
  LET r == task[t] IN
  /\ r.pc = "update"
  /\ ~ok => rpcFailures < MaxRpcFailures
  /\ rpcFailures' = IF ok THEN rpcFailures ELSE rpcFailures + 1
  /\ IF ~ok THEN
       /\ task' = [task EXCEPT ![t] = Fails(r, ErrBroker)]
       /\ UNCHANGED brokerSubs
     ELSE IF brokerSubs[r.queue] = NoSub \/ config.DeadLetterTopic \notin brokerTopics THEN
       /\ task' = [task EXCEPT ![t] = Fails(r, ErrNotFound)]
       /\ UNCHANGED brokerSubs
     ELSE
       /\ task' = [task EXCEPT ![t].pc = "receive"]
       /\ brokerSubs' = [brokerSubs EXCEPT ![r.queue] = UpdatePolicy(@)]
  /\ UNCHANGED <<config, brokerTopics, pTopics, topicCreates>>
  /\ UNCHANGED msgrVars

\* Subscribe: subscription() returned no error, sub.Receive is called. It
\* receives if the subscription exists and returns the broker's error if not.
subReceive(t) ==
  LET r == task[t] IN
  /\ r.pc = "receive"
  /\ task' = [task EXCEPT ![t] =
                IF brokerSubs[r.queue] # NoSub THEN [r EXCEPT !.pc = "receiving"]
                ELSE [r EXCEPT !.pc = "done", !.err = ErrNotFound]]
  /\ UNCHANGED <<config, brokerTopics, brokerSubs, pTopics, rpcFailures, topicCreates>>
  /\ UNCHANGED msgrVars

\* (mutant) Dispatch returns after topic.Publish, without res.Get.
PublishNoGet(t, ok) ==
  LET r == task[t] IN
  /\ r.pc = "publish"
  /\ ~ok => rpcFailures < MaxRpcFailures
  /\ rpcFailures' = IF ok THEN rpcFailures ELSE rpcFailures + 1
  /\ task' = [task EXCEPT ![t] =
                [r EXCEPT !.pc = "done", !.err = Nil,
                          !.acked = ok /\ r.queue \in brokerTopics]]
  /\ UNCHANGED <<config, brokerTopics, brokerSubs, pTopics, topicCreates>>
  /\ UNCHANGED msgrVars

\* Dispatch: topic.Publish and res.Get, whose error is returned: the broker
\* takes the message (acknowledges the publish) if the topic exists.
Publish(t, ok) ==
  LET r == task[t] IN
  /\ r.pc = "publish"
  /\ ~ok => rpcFailures < MaxRpcFailures
  /\ rpcFailures' = IF ok THEN rpcFailures ELSE rpcFailures + 1
  /\ task' = [task EXCEPT ![t] =
                IF ~ok THEN [r EXCEPT !.pc = "done", !.err = ErrPublish]
                ELSE IF r.queue \notin brokerTopics THEN [r EXCEPT !.pc = "done", !.err = ErrNotFound]
                ELSE [r EXCEPT !.pc = "done", !.err = Nil, !.acked = TRUE]]
  /\ UNCHANGED <<config, brokerTopics, brokerSubs, pTopics, topicCreates>>
  /\ UNCHANGED msgrVars

\* m.Dispatch(msg) up to the call of the adapter: json.Marshal, whose error is
\* returned at once; otherwise m.adapter.Dispatch(adapterMessage{...}) is called
\* (by goroutine 1, on the Messenger's adapter, instance 1).
DispatchCall(msg) ==
  /\ config.made
  /\ task[1].pc = "idle"
  /\ dispatch.result # "pending"
  /\ IF MarshalFails(msg) THEN
       /\ dispatch' = [msg |-> msg, sent |-> NoMessage, calls |-> 0, result |-> ErrMarshal]
       /\ UNCHANGED task
     ELSE
       /\ dispatch' = [msg |-> msg, sent |-> AdapterMessage(msg), calls |-> 1,
                       result |-> "pending"]
       /\ task' = [task EXCEPT ![1] = DispatchTask(1, AdapterMessage(msg).Queue)]
  /\ UNCHANGED <<config, brokerTopics, brokerSubs, pTopics, rpcFailures, topicCreates>>
  /\ UNCHANGED <<RestartTimeout, callVars, shutdownVars, coordVars, deliv, otherVars>>

\* m.adapter.Dispatch has returned: m.Dispatch logs and returns its error.
DispatchReturn ==
  /\ dispatch.result = "pending"
  /\ task[1].pc = "done"
  /\ dispatch' = [dispatch EXCEPT !.result = task[1].err]
  /\ task' = [task EXCEPT ![1] = IdleTask]
  /\ UNCHANGED <<config, brokerTopics, brokerSubs, pTopics, rpcFailures, topicCreates>>
  /\ UNCHANGED <<RestartTimeout, callVars, shutdownVars, coordVars, deliv, otherVars>>

\* The goroutine is through with the operation (the receive loop has returned,
\* the caller has the result) and free for the next one.
taskReturn(t) ==
  /\ task[t].pc \in {"receiving", "done"}
  /\ task' = [task EXCEPT ![t] = IdleTask]
  /\ UNCHANGED <<config, brokerTopics, brokerSubs, pTopics, rpcFailures, topicCreates>>
  /\ UNCHANGED msgrVars

\* Somebody changes the configuration of a subscription in the console, while no
\* Subscribe call is provisioning.
Drift(n) ==
  /\ Quiet
  /\ brokerSubs[n] \notin {NoSub, PolicyDrifted}
  /\ brokerSubs' = [brokerSubs EXCEPT ![n] = PolicyDrifted]
  /\ UNCHANGED <<config, brokerTopics, pTopics, task, rpcFailures, topicCreates>>
  /\ UNCHANGED msgrVars

\* ------------------------------------- the broker: redelivery, dead letters
\* Subscribe of call c is inside m.adapter.Subscribe(queue, handleMessage, ctx):
\* the adapter begins to provision for that queue.
AdapterSubscribe(c) ==
  /\ pc[c] = "receiving"
  /\ pubsubSubscribe(1, 1, queue[c])

\* A message is published to the topic of the queue of call c.
BrokerPublish(c, e) ==
  /\ pc[c] = "receiving"
  /\ inbox.where = "none"
  /\ inbox' = [NoInbox EXCEPT !.where = "primary", !.env = e]
  /\ UNCHANGED <<RestartTimeout, deliv, dispatch, provVars, addView, conn>>
  /\ UNCHANGED callVars
  /\ UNCHANGED coordVars
  /\ UNCHANGED shutdownVars

\* sub.Receive of the adapter is running for the queue of call c, on a
\* subscription that has the policy Subscribe applies.
ReceivingWithPolicy(c) ==
  /\ pc[c] = "receiving"
  /\ task[1].op = "subscribe" /\ task[1].pc = "receiving" /\ task[1].queue = queue[c]
  /\ brokerSubs[queue[c]] = PolicyConfigured

\* The broker delivers the message to the receive loop, which hands it to the
\* callback: a delivery attempt. A broker that honours the policy makes no more
\* than MaxDeliveryAttempts of them.
Redeliver(c, d) ==
  /\ ReceivingWithPolicy(c)
  /\ inbox.where = "primary"
  /\ inbox.attempts < MaxDeliveryAttempts
  /\ deliv[d].stage = "free"
  /\ deliv' = [deliv EXCEPT ![d] =
                 [FreeSlot EXCEPT !.stage = "callback", !.call = c, !.env = inbox.env]]
  /\ inbox' = [inbox EXCEPT !.where = "delivered", !.attempts = @ + 1]
  /\ UNCHANGED <<RestartTimeout, dispatch, provVars, addView, conn>>
  /\ UNCHANGED callVars
  /\ UNCHANGED coordVars
  /\ UNCHANGED shutdownVars

\* The broker gets the Ack or the Nack of the callback. Acknowledged, the
\* message is gone from the subscription; not acknowledged, it is delivered
\* again, and after the last attempt the policy allows it is forwarded to the
\* dead-letter topic.
BrokerSettle(d) ==
  LET r == deliv[d] IN
  /\ r.stage = "settled"
  /\ inbox.where = "delivered"
  /\ inbox' = [inbox EXCEPT
                 !.acked = @ + r.acks,
                 !.nacked = @ + r.nacks,
                 !.succeeded = @ \/ (r.env.ok /\ r.cb = Nil),
                 !.where = IF r.acks > 0 THEN "acked"
                           ELSE IF inbox.attempts >= MaxDeliveryAttempts THEN "deadLetter"
                           ELSE "primary"]
  /\ deliv' = [deliv EXCEPT ![d] = FreeSlot]
  /\ UNCHANGED <<RestartTimeout, dispatch, provVars, addView, conn>>
  /\ UNCHANGED callVars
  /\ UNCHANGED coordVars
  /\ UNCHANGED shutdownVars

\* The steps inside the adapter once an operation has begun.
ProvisionStep(t) ==
  \/ topic(t)
  \/ \E ok \in BOOLEAN : topicExists(t, ok)
  \/ \E ok \in BOOLEAN : CreateTopic(t, ok)
  \/ topicStore(t)
  \/ \E ok \in BOOLEAN : subExists(t, ok)
  \/ \E ok \in BOOLEAN : CreateSubscription(t, ok)
  \/ \E ok \in BOOLEAN : Update(t, ok)
  \/ subReceive(t)
  \/ \E ok \in BOOLEAN : Publish(t, ok)
  \/ taskReturn(t)

\* Adapter operations one after the other, by one goroutine, on either adapter
\* instance.
NextProvision ==
  \/ \E dl \in DeadLetterTopics : newPubsubAdapter(dl)
  \/ \E i \in Instances, q \in PQueues : pubsubSubscribe(1, i, q)
  \/ \E i \in Instances, q \in PQueues : pubsubDispatch(1, i, q)
  \/ ProvisionStep(1)
  \/ \E n \in Names : Drift(n)

SpecProvision == Init /\ [][NextProvision]_vars

\* Adapter operations running at once on one adapter instance, for one queue.
NextProvisionConc ==
  \/ \E dl \in DeadLetterTopics : newPubsubAdapter(dl)
  \/ \E t \in Tasks : pubsubSubscribe(t, 1, "dev.x")
  \/ \E t \in Tasks : pubsubDispatch(t, 1, "dev.x")
  \/ \E t \in Tasks : ProvisionStep(t)

SpecProvisionConc == Init /\ [][NextProvisionConc]_vars

\* Messenger.Dispatch through the adapter (made without a dead-letter topic),
\* while another goroutine subscribes and so provisions topics.
NextDispatch ==
  \/ newPubsubAdapter("")
  \/ \E msg \in Messages : DispatchCall(msg)
  \/ \E t \in Tasks : topic(t)
  \/ \E t \in Tasks : topicStore(t)
  \/ \E ok \in BOOLEAN : Publish(1, ok)
  \/ DispatchReturn
  \/ \E q \in PQueues : pubsubSubscribe(2, 1, q)
  \/ \E ok \in BOOLEAN : topicExists(2, ok)
  \/ \E ok \in BOOLEAN : CreateTopic(2, ok)
  \/ \E ok \in BOOLEAN : subExists(2, ok)
  \/ \E ok \in BOOLEAN : CreateSubscription(2, ok)
  \/ subReceive(2)
  \/ taskReturn(2)

SpecDispatch == Init /\ [][NextDispatch]_vars

\* The first Dispatch call of the program.
DispatchFirst(msg) == dispatch.result = "none" /\ Dispatch(msg)

\* One message dispatched and delivered to a subscription of its queue.
NextRoundTrip ==
  \/ Subscribe(1, RoundTripGroups)
  \/ \E msg \in RoundTripMessages : DispatchFirst(msg)
  \/ \E d \in Slots : Deliver(1, d)
  \/ \E d \in Slots : Callback(d)
  \/ \E d \in Slots, e \in {Nil, ErrHandle} : HandleReturn(d, e)

SpecRoundTrip == Init /\ [][NextRoundTrip]_vars

Next ==
  \/ \E c \in Calls : Subscribe(c, AppGroups)
  \/ \E c \in Calls, e \in AdapterErrors : AdapterReturn(c, e)
  \/ \E c \in Calls : ReturnClean(c)
  \/ \E c \in Calls : ReturnFatal(c)
  \/ \E c \in Calls : Backoff(c)
  \/ \E c \in Calls : Restart(c)
  \/ ShutdownStart
  \/ ShutdownFire
  \/ ShutdownDrained
  \/ ShutdownTimeout

Spec == Init /\ [][Next]_vars

\* The receive loop of call c returns once the context it was given is cancelled.
AdapterCancelled(c) ==
  /\ ctx[c] \in cancelled
  /\ \E e \in {Nil, Canceled} : AdapterReturn(c, e)

\* What the scheduler guarantees: a goroutine that can take its next step takes
\* it (a return, the end of a sleep, the nested call, the loop and the Wait of
\* shutdown), and a receive loop whose context is cancelled returns. Nothing
\* forces a new Subscribe call, a shutdown request, a broker failure or the
\* shutdown timeout.
Fairness ==
  /\ \A c \in Calls :
       /\ WF_vars(AdapterCancelled(c))
       /\ WF_vars(ReturnClean(c))
       /\ WF_vars(ReturnFatal(c))
       /\ WF_vars(Backoff(c))
       /\ WF_vars(Restart(c))
  /\ WF_vars(ShutdownFire)
  /\ WF_vars(ShutdownDrained)

FairSpec == Init /\ [][Next]_vars /\ Fairness

\* One caller, any handler list, and Dispatch: the queue names the adapter gets.
NextNames ==
  \/ Subscribe(1, HandlerLists)
  \/ \E e \in AdapterErrors : AdapterReturn(1, e)
  \/ ReturnClean(1)
  \/ ReturnFatal(1)
  \/ Backoff(1)
  \/ Restart(1)
  \/ \E msg \in Messages : Dispatch(msg)

SpecNames == Init /\ [][NextNames]_vars

\* One Subscribe call on any handler list: the validation of the handlers.
NextValidate ==
  \/ Subscribe(1, HandlerLists)
  \/ \E e \in AdapterErrors : AdapterReturn(1, e)

SpecValidate == Init /\ [][NextValidate]_vars

\* Subscriptions in their receive loops: the handling of each message.
NextReceive ==
  \/ \E c \in Calls : Subscribe(c, RouteLists)
  \/ \E c \in Calls, d \in Slots : Receive(c, d)
  \/ \E d \in Slots : Callback(d)
  \/ \E d \in Slots, e \in {Nil, ErrHandle} : HandleReturn(d, e)

SpecReceive == Init /\ [][NextReceive]_vars

\* Subscriptions that receive and handle messages while shutdown runs, their
\* receive loops ending without a failure of the broker.
NextDrain ==
  \/ \E c \in Calls : Subscribe(c, AppGroups)
  \/ \E c \in Calls, d \in Slots : Receive(c, d)
  \/ \E d \in Slots : Callback(d)
  \/ \E d \in Slots, e \in {Nil, ErrHandle} : HandleReturn(d, e)
  \/ \E c \in Calls, e \in {Nil, Canceled} : AdapterReturn(c, e)
  \/ \E c \in Calls : ReturnClean(c)
  \/ ShutdownStart
  \/ ShutdownFire
  \/ ShutdownDrained
  \/ ShutdownTimeout

SpecDrain == Init /\ [][NextDrain]_vars

\* The Subscribe calls App.Run starts, one goroutine each, registering with the
\* coordinator at the same time, and shutdown.
NextRegister ==
  \/ \E c \in Calls : SubscribeEnter(c, AppGroups)
  \/ \E c \in Calls : AddStore(c)
  \/ \E c \in Calls, e \in {Nil, Canceled} : AdapterReturn(c, e)
  \/ \E c \in Calls : ReturnClean(c)
  \/ ShutdownStart
  \/ ShutdownFire
  \/ ShutdownDrained
  \/ ShutdownTimeout

SpecRegister == Init /\ [][NextRegister]_vars

\* The Subscribe calls and shutdown(30 * time.Second) as App.Run calls it.
NextShutdown ==
  \/ \E c \in Calls : Subscribe(c, AppGroups)
  \/ \E c \in Calls, e \in AdapterErrors : AdapterReturn(c, e)
  \/ \E c \in Calls : ReturnClean(c)
  \/ \E c \in Calls : ReturnFatal(c)
  \/ \E c \in Calls : Backoff(c)
  \/ \E c \in Calls : Restart(c)
  \/ ShutdownStart
  \/ ShutdownFire
  \/ ShutdownDrained
  \/ ShutdownDeadline

SpecShutdown == Init /\ [][NextShutdown]_vars

\* The adapter of a Messenger built by New: Subscribe calls one after the other,
\* on any queue name the Messenger can hand it.
NextDeadLetter ==
  \/ \E name \in DeadLetterNames : New(name)
  \/ \E q \in Names : pubsubSubscribe(1, 1, q)
  \/ topic(1)
  \/ \E ok \in BOOLEAN : topicExists(1, ok)
  \/ \E ok \in BOOLEAN : CreateTopic(1, ok)
  \/ topicStore(1)
  \/ \E ok \in BOOLEAN : subExists(1, ok)
  \/ \E ok \in BOOLEAN : CreateSubscription(1, ok)
  \/ \E ok \in BOOLEAN : Update(1, ok)
  \/ subReceive(1)
  \/ taskReturn(1)

SpecDeadLetter == Init /\ [][NextDeadLetter]_vars

\* One subscription of a Messenger built by New, provisioned by its adapter, and
\* a message of its queue that the broker delivers until it is settled.
NextRedeliver ==
  \/ \E name \in DeadLetterNames : New(name)
  \/ Subscribe(1, RouteLists)
  \/ AdapterSubscribe(1)
  \/ topic(1)
  \/ topicExists(1, TRUE)
  \/ CreateTopic(1, TRUE)
  \/ topicStore(1)
  \/ subExists(1, TRUE)
  \/ CreateSubscription(1, TRUE)
  \/ Update(1, TRUE)
  \/ subReceive(1)
  \/ \E e \in Envelopes : BrokerPublish(1, e)
  \/ \E d \in Slots : Redeliver(1, d)
  \/ \E d \in Slots : Callback(d)
  \/ \E d \in Slots, e \in {Nil, ErrHandle} : HandleReturn(d, e)
  \/ \E d \in Slots : BrokerSettle(d)

SpecRedeliver == Init /\ [][NextRedeliver]_vars

\* One subscription whose receive loop runs its callbacks at once.
NextConcurrent ==
  \/ Subscribe(1, RouteLists)
  \/ \E d \in ConcSlots : Receive(1, d)
  \/ \E d \in ConcSlots : Callback(d)
  \/ \E d \in ConcSlots, e \in {Nil, ErrHandle} : HandleReturn(d, e)

SpecConcurrent == Init /\ [][NextConcurrent]_vars

\* ================================================================ claims
AllSameQueue(h) == \A i, j \in 1..Len(h) : h[i].queue = h[j].queue

\* C1 (as claimed): every Subscribe call whose handlers do not all return the
\* same Queue() returns ErrDifferentQueues, wherever the differing handler
\* stands and whatever the values are, the empty string included.
C1_MixedQueuesRejected ==
  \A c \in Calls :
    (pc[c] # "idle" /\ ~AllSameQueue(handlers[c])) => result[c] = ErrDifferentQueues

\* C2: a Subscribe call that returned ErrDifferentQueues has had no effect: the
\* adapter was not invoked (no queue was handed to it), no context was obtained
\* from the coordinator, no cancel function was registered and the live-task
\* counter is unchanged.
C2_RejectHasNoEffect ==
  result[1] = ErrDifferentQueues =>
    /\ invoked[1] = 0
    /\ queue[1] = ""
    /\ ctx[1] = NoCtx
    /\ cancels = <<>>
    /\ cancelled = {}
    /\ wg = 0

C2_Witness == result[1] = ErrDifferentQueues /\ Len(handlers[1]) = 2

\* shutdown has run every cancel function of its loop.
ShutdownFired == sdPc # "idle" /\ sdIdx > Len(sdSnap)
InProgress(c) == pc[c] \in {"receiving", "returned", "backoff"}
\* Call c had registered with the coordinator when shutdown began its loop.
RegisteredBeforeShutdown(c) == \E i \in 1..Len(sdSnap) : sdSnap[i][1] = c

\* C3 (as claimed, for a Messenger with a restart timeout): once shutdown has
\* fired its cancellation signals, every Subscribe call that had registered
\* before and is still in progress (receiving, just failed, sleeping in backoff
\* or re-registering) eventually returns nil, all its frames gone from the
\* live-task counter.
C3_ShutdownEndsSubscriptions ==
  \A c \in Calls :
    (RestartTimeout # 0 /\ ShutdownFired /\ RegisteredBeforeShutdown(c) /\ InProgress(c))
      ~> (pc[c] = "done" /\ result[c] = Nil /\ frames[c] = 0)

\* C4: every message the receive loop delivered is settled by exactly one call
\* of Ack or Nack: Ack if and only if the envelope decoded and the callback
\* returned nil, Nack otherwise; and neither is called before the callback
\* has returned.
C4_ExactlyOneAckOrNack ==
  \A d \in Slots :
    LET r == deliv[d] IN
    /\ r.stage \in {"callback", "inHandle"} => (r.acks = 0 /\ r.nacks = 0)
    /\ r.stage = "settled" =>
         /\ r.acks + r.nacks = 1
         /\ r.acks = 1 <=> (r.env.ok /\ r.cb = Nil)
         /\ r.nacks = 1 <=> (~r.env.ok \/ r.cb \in {ErrNoHandler, ErrUnmarshal, ErrHandle})

C4_Witness ==
  \E d \in Slots :
    /\ deliv[d].stage = "settled" /\ deliv[d].env.ok
    /\ deliv[d].cb = ErrHandle /\ deliv[d].nacks = 1

\* The handlers of a list whose message has the identifier, and the first.
Matching(h, id) == {i \in 1..Len(h) : h[i].id = id}
FirstOf(M) == CHOOSE i \in M : \A j \in M : i <= j
Routed(r) == r.stage \in {"inHandle", "settled"} /\ r.env.ok

\* C5 (as claimed): for an identifier that matches a registered handler the
\* closure invokes Handle on exactly one handler, the first that matches; for an
\* identifier that matches none it invokes no handler and returns "no handler
\* found".
C5_MatchInvokesExactlyOne ==
  \A d \in Slots :
    LET r == deliv[d]
        M == Matching(handlers[r.call], r.env.type) IN
    Routed(r) =>
      IF M = {} THEN r.handled = <<>> /\ r.cb = ErrNoHandler
      ELSE r.handled = <<FirstOf(M)>>

\* C5 (amended): as C5, for a body that decodes into the handler's message; a
\* body that does not decode has no handler invoked and the decode error
\* returned.
C5_RoutesByIdentifier ==
  \A d \in Slots :
    LET r == deliv[d]
        M == Matching(handlers[r.call], r.env.type) IN
    Routed(r) =>
      IF M = {} THEN r.handled = <<>> /\ r.cb = ErrNoHandler
      ELSE IF r.env.bodyOK THEN r.handled = <<FirstOf(M)>>
      ELSE r.handled = <<>> /\ r.cb = ErrUnmarshal

C5_Witness ==
  \E d \in Slots :
    /\ deliv[d].stage = "inHandle"
    /\ Cardinality(Matching(handlers[deliv[d].call], deliv[d].env.type)) = 2
    /\ deliv[d].handled = <<1>>

\* The adapter's error is neither nil nor the error of the context it was given.
Unexpected(c) == err[c] # Nil /\ err[c] # CtxErr(ctx[c])
\* Call c leaves the point where Subscribe looks at the adapter's error.
Decides(c) == pc[c] = "returned" /\ pc'[c] # "returned"

\* C6: with RestartTimeout > 0, an adapter error that is neither nil nor the
\* context's error is not returned: the call goes to sleep, and the adapter is
\* invoked again only out of that sleep, with the same queue name and the same
\* handlers; every invocation after the first is preceded by a sleep of its own.
C6_RestartAfterWait ==
  [][\A c \in Calls :
       /\ (Decides(c) /\ Unexpected(c) /\ RestartTimeout # 0) =>
            (pc'[c] = "backoff" /\ result'[c] = "none" /\ invoked'[c] = invoked[c])
       /\ (pc[c] = "backoff" /\ pc'[c] # "backoff") =>
            (pc'[c] = "receiving" /\ invoked'[c] = invoked[c] + 1)
       /\ (invoked[c] >= 1 /\ invoked'[c] # invoked[c]) =>
            /\ pc[c] = "backoff"
            /\ slept'[c] = slept[c] + 1
            /\ queue'[c] = queue[c]
            /\ handlers'[c] = handlers[c]
       /\ invoked'[c] <= slept'[c] + 1
    ]_vars

C6_Witness ==
  \E c \in Calls :
    /\ pc[c] = "receiving" /\ invoked[c] = 2 /\ slept[c] = 1
    /\ err[c] = ErrBroker /\ RestartTimeout # 0

\* C7: when the adapter returns nil, or the error of the context it was given,
\* Subscribe returns nil then and there: no sleep, no further invocation of
\* the adapter, whatever RestartTimeout is.
C7_CleanReturn ==
  [][\A c \in Calls :
       (Decides(c) /\ (err[c] = Nil \/ err[c] = CtxErr(ctx[c]))) =>
         /\ pc'[c] = "done"
         /\ result'[c] = Nil
         /\ invoked'[c] = invoked[c]
         /\ slept'[c] = slept[c]
    ]_vars

C7_Witness ==
  \E c \in Calls :
    /\ pc[c] = "done" /\ result[c] = Nil
    /\ err[c] = Canceled /\ ctx[c] \in cancelled /\ RestartTimeout # 0

\* C8 (as claimed): when the context given to the adapter is the cause of the
\* error the adapter returns (the context's error itself, or that error
\* wrapped), Subscribe returns nil and does not restart.
C8_ContextCauseReturnsNil ==
  [][\A c \in Calls :
       (Decides(c) /\ ctx[c] \in cancelled /\ err[c] \in {Canceled, WrappedCanceled}) =>
         (pc'[c] = "done" /\ result'[c] = Nil)
    ]_vars

\* C9: with RestartTimeout = 0, an adapter error that is neither nil nor the
\* context's error is the error Subscribe returns, after one invocation of the
\* adapter.
C9_FatalWithoutRestart ==
  [][\A c \in Calls :
       /\ (Decides(c) /\ Unexpected(c) /\ RestartTimeout = 0) =>
            (pc'[c] = "done" /\ result'[c] = err[c] /\ invoked'[c] = 1)
       /\ RestartTimeout = 0 => invoked'[c] <= 1
    ]_vars

C9_Witness ==
  \E c \in Calls :
    /\ RestartTimeout = 0 /\ pc[c] = "done"
    /\ result[c] = ErrBroker /\ invoked[c] = 1 /\ frames[c] = 0

\* The Queue() values of the handlers of a list ("" for the empty list).
LogicalQueues(h) == IF h = <<>> THEN {""} ELSE {h[i].queue : i \in 1..Len(h)}

\* C10: every queue name the Messenger gives the adapter, in Dispatch and in
\* every Subscribe attempt, restarts included, is Environment, a dot and the
\* logical Queue() value: the prefix is there once.
C10_QueueNamesPrefixedOnce ==
  /\ \A c \in Calls :
       invoked[c] > 0 =>
         \E q \in LogicalQueues(handlers[c]) : queue[c] = Environment \o "." \o q
  /\ dispatch.calls = 1 =>
       dispatch.sent.Queue = Environment \o "." \o dispatch.msg.queue

C10_Witness ==
  /\ invoked[1] = 2 /\ pc[1] = "receiving" /\ queue[1] = "dev.x"
  /\ dispatch.calls = 1 /\ dispatch.sent.Queue = "dev.y"

\* C11: the registration with the coordinator is balanced. Every frame of a
\* Subscribe call that passed validation has added one to the live-task counter
\* before its adapter invocation (as many frames as invocations while the call
\* is in progress), and every frame has taken its one back when the outermost
\* call has returned, whatever it returned: the counter is the number of frames
\* of the calls in progress, so it is back at its earlier value after a call
\* and never negative.
C11_RegistrationBalanced ==
  /\ wg = frames[1] + frames[2]
  /\ wg >= 0
  /\ \A c \in Calls :
       /\ InProgress(c) => (frames[c] = invoked[c] /\ frames[c] >= 1)
       /\ pc[c] \in {"idle", "done"} => frames[c] = 0

C11_Witness ==
  \E c \in Calls :
    /\ pc[c] = "done" /\ result[c] = Nil /\ invoked[c] = 2 /\ slept[c] = 1
    /\ frames[c] = 0 /\ wg = 0

\* A receive loop, or a message handler inside one, is running.
Receiving == \E c \in Calls : pc[c] = "receiving"
Handling == \E d \in Slots : deliv[d].stage \in {"callback", "inHandle"}

\* C12: shutdown never completes successfully while a receive loop of a
\* registered subscription, or a message handler inside it, is still running:
\* at the step where shutdown's result becomes nil no call is in its receive
\* loop and no message is being handled, and while the live-task counter is
\* zero no registered call is receiving.
C12_ShutdownWaitsForReceive ==
  [][ /\ (sdResult # Nil /\ sdResult' = Nil) => (~Receiving /\ ~Handling)
      /\ wg = 0 => (~Receiving /\ ~Handling)
    ]_vars

C12_Witness ==
  /\ sdResult = Nil
  /\ \E c \in Calls, d \in Slots :
       /\ pc[c] = "done" /\ ctx[c] \in cancelled
       /\ deliv[d].call = c /\ deliv[d].stage = "settled" /\ deliv[d].acks = 1

\* A step of the goroutine t inside the adapter.
StepOf(t) == task'[t] # task[t]
Finished(r, o) == r.op = o /\ r.pc = "done"

\* C13 (as claimed): a publish the broker does not fail succeeds, on a queue
\* nobody has subscribed to as well, and leaves the topic of the queue existing.
C13_DispatchCreatesTopic ==
  \A t \in Tasks :
    (Finished(task[t], "dispatch") /\ rpcFailures = 0) =>
      (task[t].err = Nil /\ task[t].queue \in brokerTopics)

\* C13 (amended): the adapter's Dispatch creates nothing. No step of it changes
\* the topics of the broker or issues a create request; on a queue whose topic
\* does not exist it returns the broker's not-found error (or the failure of the
\* publish request) and the topic is still absent; it returns nil only for a
\* topic that exists.
C13_DispatchNeedsTopic ==
  [][\A t \in Tasks :
       (task[t].op = "dispatch" /\ StepOf(t)) =>
         /\ brokerTopics' = brokerTopics
         /\ topicCreates' = topicCreates
         /\ task'[t].pc = "done" =>
              IF task[t].queue \in brokerTopics
                THEN task'[t].err \in {Nil, ErrPublish}
                ELSE task'[t].err \in {ErrNotFound, ErrPublish}
    ]_vars

C13_Witness ==
  \E t \in Tasks :
    /\ Finished(task[t], "dispatch") /\ task[t].err = ErrNotFound /\ rpcFailures = 0
    /\ task[t].queue \notin brokerTopics /\ task[t].queue \in pTopics[task[t].inst]

C15_ProvisioningSerialized ==
  rpcFailures = 0 =>
    /\ \A n \in Names : topicCreates[n] <= 1
    /\ \A t \in Tasks : ErrAlreadyExists \notin {task[t].err, task[t].ignored}

\* The resources a Subscribe on queue q needs.
Needed(q) == {q} \cup (IF config.DeadLetterTopic = "" THEN {} ELSE {config.DeadLetterTopic})

\* C16: provisioning is idempotent for calls one after the other, on the same
\* adapter instance or a fresh one. No create request is issued for a topic or a
\* subscription that exists, no call meets an already-exists error, and a
\* Subscribe that began with its topics and subscriptions all there leaves the
\* broker with the resources it found.
C16_ProvisioningIdempotent ==
  [][\A t \in Tasks :
       /\ (task[t].pc = "topicCreate" /\ StepOf(t)) => Resource(task[t]) \notin brokerTopics
       /\ (task[t].pc = "subCreate" /\ StepOf(t)) => brokerSubs[Resource(task[t])] = NoSub
       /\ ErrAlreadyExists \notin {task'[t].err, task'[t].ignored}
       /\ ( /\ task'[t].op = "subscribe"
            /\ Needed(task'[t].queue) \subseteq task'[t].snap.topics
            /\ Needed(task'[t].queue) \subseteq task'[t].snap.subs ) =>
              /\ brokerTopics' = task'[t].snap.topics
              /\ {n \in Names : brokerSubs'[n] # NoSub} = task'[t].snap.subs
    ]_vars

C16_Witness ==
  \E t \in Tasks :
    /\ task[t].op = "subscribe" /\ task[t].pc = "receiving" /\ task[t].inst = 2
    /\ config.DeadLetterTopic # ""
    /\ Needed(task[t].queue) \subseteq task[t].snap.subs
    /\ pTopics[1] # {} /\ ~task[t].failed

\* C17 (as claimed): a Subscribe in which a provisioning request failed returns
\* an error and does not go on to sub.Receive.
C17_ProvisioningFailureReturned ==
  \A t \in Tasks :
    (task[t].op = "subscribe" /\ task[t].failed) =>
      /\ task[t].pc \notin {"receive", "receiving"}
      /\ task[t].pc = "done" => task[t].err # Nil

\* C18: with a dead-letter topic configured, a Subscribe whose provisioning
\* returned no error has applied the policy: when it calls sub.Receive the
\* dead-letter topic exists and the subscription of the queue has the
\* configured dead-letter and retry policy, whether the subscription was there
\* before and whatever its policy was.
C18_PolicyReapplied ==
  \A t \in Tasks :
    (task[t].op = "subscribe" /\ task[t].pc = "receive" /\ config.DeadLetterTopic # "") =>
      /\ brokerSubs[task[t].queue] = PolicyConfigured
      /\ config.DeadLetterTopic \in brokerTopics

C18_Witness ==
  \E t \in Tasks :
    /\ task[t].op = "subscribe" /\ task[t].pc = "receive" /\ config.DeadLetterTopic # ""
    /\ task[t].snap.policy = PolicyDrifted
    /\ brokerSubs[task[t].queue] = PolicyConfigured

\* C19: Messenger.Dispatch is synchronous and reports the outcome of the
\* publish. It returns only when the adapter has returned: nil only when the
\* broker has acknowledged the publish, and otherwise the very error of the
\* adapter; a message that does not serialize has its error returned with no
\* call of the adapter.
C19_DispatchReportsPublish ==
  [][dispatch'.result # dispatch.result =>
       /\ dispatch'.result = "pending" =>
            (~MarshalFails(dispatch'.msg) /\ task'[1].op = "dispatch" /\ dispatch'.calls = 1)
       /\ dispatch'.result = ErrMarshal =>
            (MarshalFails(dispatch'.msg) /\ dispatch'.calls = 0 /\ task' = task)
       /\ dispatch'.result \notin {"pending", ErrMarshal} =>
            /\ dispatch.result = "pending" /\ task[1].pc = "done"
            /\ dispatch'.result = task[1].err
            /\ dispatch'.result = Nil <=> task[1].acked
    ]_vars

C19_Witness ==
  /\ dispatch.result = Nil /\ dispatch.calls = 1
  /\ dispatch.sent.Queue \in brokerTopics /\ task[1].pc = "idle"

\* C20 (as claimed, for identifiers that are valid UTF-8 and for the fields JSON
\* carries): a message dispatched and then delivered to a subscription with a
\* handler for its identifier reaches the dispatch closure with the identifier
\* and the body Dispatch gave the adapter, and once the closure is through with
\* it Handle has been invoked, on the first matching handler, with a decoded
\* message whose payload is the original's.
C20_RoundTrip ==
  \A d \in Slots :
    LET r == deliv[d]
        M == Matching(handlers[r.call], dispatch.msg.id) IN
    ( /\ r.got # NoMessage /\ r.stage \in {"inHandle", "settled"}
      /\ ToValidUTF8(dispatch.msg.id) = dispatch.msg.id
      /\ M # {} ) =>
        /\ r.got.Identifier = dispatch.sent.Identifier
        /\ r.got.Body = dispatch.sent.Body
        /\ r.handled = <<FirstOf(M)>>
        /\ r.decoded = dispatch.msg.payload

\* The cancel function of the context call c holds is in gs.cancels.
Retained(c) == \E i \in 1..Len(cancels) : cancels[i] = ctx[c]

\* C21 (as claimed): with the Subscribe calls of one Messenger starting at the
\* same time, every call that has registered and is in its receive loop has its
\* own cancel function retained by the coordinator, and a shutdown that has run
\* its loop over all the coordinator holds has cancelled that call's context.
C21_RegistrationsRetained ==
  \A c \in Calls :
    pc[c] = "receiving" =>
      /\ Retained(c)
      /\ \A b \in Calls \ {c} : pc[b] = "receiving" => ctx[b] # ctx[c]
      /\ (ShutdownFired /\ sdSnap = cancels) => ctx[c] \in cancelled

C23_DecodeErrorNacked ==
  \A d \in Slots :
    LET r == deliv[d] IN
    ( /\ Routed(r)
      /\ Matching(handlers[r.call], r.env.type) # {}
      /\ ~r.env.bodyOK ) =>
        /\ r.stage = "settled"
        /\ r.cb = ErrUnmarshal
        /\ r.handled = <<>>
        /\ r.nacks = 1 /\ r.acks = 0

C23_Witness ==
  \E d \in Slots :
    /\ deliv[d].stage = "settled" /\ deliv[d].env.ok /\ ~deliv[d].env.bodyOK
    /\ Cardinality(Matching(handlers[deliv[d].call], deliv[d].env.type)) = 2
    /\ deliv[d].cb = ErrUnmarshal /\ deliv[d].nacks = 1

\* C24 (as claimed): dead-letter provisioning is one level deep. The nested call
\* of subscription() is made for the dead-letter topic with an empty dead-letter
\* name, so it makes no further call and updates nothing, and no step of the
\* adapter ever gives the subscription on the dead-letter topic the dead-letter
\* and retry policy (checked for the calls in which no request fails).
C24_DeadLetterOneLevel ==
  [][\A t \in Tasks :
       rpcFailures' = 0 =>
       /\ task'[t].level \in {0, 1}
       /\ (task[t].level = 1 /\ StepOf(t)) =>
            /\ brokerSubs'[config.DeadLetterTopic] \in {brokerSubs[config.DeadLetterTopic], PolicyDefault}
            /\ task'[t].level = 1 => task'[t].pc # "update"
       /\ \A n \in Names :
            (n = config.DeadLetterTopic /\ brokerSubs'[n] # brokerSubs[n]) =>
              brokerSubs'[n] # PolicyConfigured
    ]_vars

\* C28: the adapter of a Messenger built by New has the dead-letter topic
\* Environment, a dot and the configured name, never the empty string, the
\* configured name being empty or not. So every Subscribe attempt that has
\* resolved its topic goes on from its own subscription to the nested call for
\* the dead-letter topic, and reaches sub.Receive only out of a successful
\* sub.Update: the dead-letter topic exists then and the subscription of the
\* queue has the policy, and so does the dead-letter subscription exist if no
\* request failed.
C28_DeadLetterAlwaysConfigured ==
  [][ /\ config'.made =>
           /\ config'.DeadLetterTopic # ""
           /\ \E name \in DeadLetterNames :
                config'.DeadLetterTopic = Environment \o "." \o name
      /\ \A t \in Tasks :
           (task[t].op = "subscribe" /\ StepOf(t)) =>
             /\ (task[t].level = 0 /\ task[t].pc \in {"subExists", "subCreate"}
                   /\ task'[t].pc # "subCreate") =>
                  (task'[t].level = 1 /\ task'[t].pc = "topic")
             /\ task'[t].pc = "receive" =>
                  /\ task[t].pc = "update"
                  /\ config.DeadLetterTopic \in brokerTopics'
                  /\ brokerSubs'[task[t].queue] = PolicyConfigured
                  /\ rpcFailures' = 0 => brokerSubs'[config.DeadLetterTopic] # NoSub
    ]_vars

C28_Witness ==
  /\ config.DeadLetterTopic = "dev."
  /\ task[1].op = "subscribe" /\ task[1].pc = "receive" /\ task[1].queue = "dev.x"
  /\ brokerSubs["dev.x"] = PolicyConfigured /\ brokerSubs["dev."] = PolicyDefault
  /\ task[1].snap.policy = PolicyConfigured

\* Some delivery of the message had its envelope decoded and the closure return nil.
HandledOnce ==
  \/ inbox.succeeded
  \/ \E d \in Slots : deliv[d].stage = "settled" /\ deliv[d].env.ok /\ deliv[d].cb = Nil

\* C25: with the dead-letter policy applied and honoured by the broker, a
\* message no delivery of which was handled (its envelope does not decode, no
\* handler has its identifier, its body does not decode, or Handle returned an
\* error each time) has been nacked on every delivery that is over and never
\* acknowledged; it is delivered at most MaxDeliveryAttempts = 5 times, and it
\* is in the dead-letter topic exactly when the fifth delivery has been nacked.
C25_FailingMessageDeadLettered ==
  (inbox.where # "none" /\ ~HandledOnce) =>
    /\ inbox.acked = 0 /\ inbox.where # "acked"
    /\ \A d \in Slots : deliv[d].acks = 0
    /\ inbox.attempts <= MaxDeliveryAttempts
    /\ inbox.nacked = IF inbox.where = "delivered" THEN inbox.attempts - 1 ELSE inbox.attempts
    /\ inbox.where = "deadLetter" <=> inbox.nacked = 5

C25_Witness ==
  /\ inbox.where = "deadLetter" /\ inbox.attempts = 5 /\ inbox.nacked = 5
  /\ inbox.env.ok /\ inbox.env.bodyOK
  /\ FindHandler(handlers[1], 1, inbox.env.type) = 2

\* C26: deliveries are handled at once and share no decode target: any two
\* deliveries that are inside Handle at the same time, of one subscription and
\* one handler as well, work on different message instances, each obtained by
\* the handler.Message() call of its own delivery.
C26_OwnDecodeTarget ==
  \A d1, d2 \in ConcSlots :
    (d1 # d2 /\ deliv[d1].stage = "inHandle" /\ deliv[d2].stage = "inHandle") =>
      /\ deliv[d1].target \in Addresses /\ deliv[d2].target \in Addresses
      /\ deliv[d1].target # deliv[d2].target

C26_Witness ==
  /\ deliv[1].stage = "inHandle" /\ deliv[2].stage = "inHandle"
  /\ deliv[1].call = deliv[2].call
  /\ deliv[1].handled = <<1>> /\ deliv[2].handled = <<1>>
  /\ deliv[1].target = 2 /\ deliv[2].target = 1

\* C27: with RestartTimeout > 0 a Subscribe call that passed the validation of
\* its queues returns nothing but nil, when it returns: an unexpected error of
\* the adapter takes it into the sleep, the sleep into a new invocation of the
\* adapter (the nested call passes the validation again), and no frame returns
\* an error, ErrDifferentQueues included.
C27_RestartNeverReturnsError ==
  [][\A c \in Calls :
       (RestartTimeout # 0 /\ invoked'[c] >= 1) =>
         /\ result'[c] \in {"none", Nil}
         /\ pc'[c] = "done" => (result'[c] = Nil /\ IsClean(c))
         /\ (pc[c] = "returned" /\ ~IsClean(c)) => pc'[c] \in {"returned", "backoff"}
         /\ pc[c] = "backoff" => pc'[c] \in {"backoff", "receiving"}
    ]_vars

C27_Witness ==
  /\ RestartTimeout # 0 /\ pc[1] = "done" /\ result[1] = Nil
  /\ invoked[1] = 3 /\ slept[1] = 2 /\ failures = 2
  /\ Len(handlers[1]) = 2 /\ ~AllSameQueue(handlers[1])

\* C29: a Subscribe call with no handlers passes the validation: it has
\* registered with the coordinator (its cancel function held, the live-task
\* counter raised) and invoked the adapter once, for the queue Environment and a
\* dot, and is in the receive loop; every message the closure is given there
\* yields "no handler found", and every message received is negatively
\* acknowledged, once, and never acknowledged, no Handle being called.
C29_EmptyHandlerList ==
  \A c \in Calls :
    (pc[c] # "idle" /\ handlers[c] = <<>>) =>
      /\ result[c] = "none" /\ pc[c] = "receiving"
      /\ invoked[c] = 1 /\ queue[c] = Environment \o "."
      /\ Retained(c) /\ frames[c] = 1 /\ wg >= 1
      /\ \A d \in Slots :
           (deliv[d].call = c /\ deliv[d].stage # "callback") =>
             /\ deliv[d].stage = "settled"
             /\ deliv[d].handled = <<>>
             /\ deliv[d].nacks = 1 /\ deliv[d].acks = 0
             /\ deliv[d].env.ok => deliv[d].cb = ErrNoHandler

C29_Witness ==
  \E d \in Slots :
    /\ handlers[1] = <<>> /\ queue[1] = "dev."
    /\ deliv[d].call = 1 /\ deliv[d].stage = "settled" /\ deliv[d].env.ok
    /\ deliv[d].cb = ErrNoHandler /\ deliv[d].nacks = 1

\* C30 (as claimed): a DB(false) call whose connection attempt failed returns nil.
C30_FailedAttemptReturnsNil ==
  \A g \in Goroutines :
    (conn.g[g].pc = "done" /\ ~conn.g[g].autoRetry /\ conn.g[g].failed) =>
      conn.g[g].ret = NoDB

\* C30 (amended): under any interleaving of DB calls at most one handle is ever
\* stored in the Connection and, once stored, it is not replaced; only the
\* holder of the mutex connects; a DB(false) call makes at most one attempt and
\* returns what c.db holds when it returns, nil only if its own attempt failed
\* (and the handle another call has stored meanwhile otherwise); a DB(true) call
\* returns only a stored handle.
C30_ConnectionSafe ==
  [][ /\ conn.db # NoDB => conn'.db = conn.db
      /\ conn'.stores <= 1
      /\ conn'.db # conn.db => (conn.lock # 0 /\ conn'.db = conn.lock)
      /\ \A g \in Goroutines :
           LET r == conn'.g[g] IN
           /\ ~r.autoRetry => r.attempts <= 1
           /\ r.pc \in {"open", "sleep"} => conn'.lock = g
           /\ (r.pc = "done" /\ conn.g[g].pc = "return") =>
                /\ r.ret = conn.db
                /\ r.ret = NoDB => (~r.autoRetry /\ r.attempts = 1 /\ r.failed)
                /\ r.autoRetry => r.ret # NoDB
    ]_vars

C30_Witness ==
  /\ conn.db = 2 /\ conn.stores = 1
  /\ conn.g[1].pc = "done" /\ ~conn.g[1].autoRetry /\ conn.g[1].failed
  /\ conn.g[1].ret = 2
  /\ conn.g[2].autoRetry /\ conn.g[2].attempts = 2

TypeOK ==
  /\ pc \in [Calls -> {"idle", "adding", "receiving", "returned", "backoff", "done"}]
  /\ wg \in Nat

====
